---- MODULE Spec2Model ----
(***************************************************************************)
(* A model of brand-scanner-app.py: the sitemap resolver                   *)
(* (get_urls_from_sitemap), the bounded breadth-first crawler (crawl_site), *)
(* the matcher (search_terms_in_text) and the run that main() drives.       *)
(*                                                                         *)
(* Python strings are sequences of one-character strings, indexed from 0   *)
(* as in the source (Slice, find).  Two code points that matter to         *)
(* str.lower() are written as the atoms "U0130" (LATIN CAPITAL LETTER I    *)
(* WITH DOT ABOVE) and "U0307" (COMBINING DOT ABOVE).                      *)
(***************************************************************************)
EXTENDS Integers, Sequences, FiniteSets, TLC

\* ------------------------------------------------------------------------
\* Bounds of the model
\* ------------------------------------------------------------------------
MaxBody == 3
MaxTerms == 2
MaxLocs == 2
RecursionLimit == 4
MaxLinks == 2
MaxBudget == 3

\* ------------------------------------------------------------------------
\* State
\* ------------------------------------------------------------------------
\* Matcher (search_terms_in_text):
\* text, terms  the arguments
\* results      the returned mapping term -> snippets
\* hits         for each term of the list, the values idx took in its loop
\* termIdx      the number of terms the for loop has taken from the list
\* scanStart    the local start of the while loop
\* scanIdx      the local idx of the while loop
\* mpc          "idle", "call" or "returned"; in the statement-by-statement
\*              run "main" (before the call), "for", "while" or "returned"
VARIABLES text, terms, results, hits, termIdx, scanStart, scanIdx, mpc

matchVars == <<text, terms, results, hits, termIdx, scanStart, scanIdx, mpc>>

\* Sitemap resolver (get_urls_from_sitemap):
\* smStack     the nested calls of get_urls_from_sitemap, outermost first; a
\*             frame holds sitemap_url, the parsed document (soup), the
\*             position i of the loop over sitemap_tags, the set urls, the
\*             pending exception exc and the place pcf in the body
\* smDocs      what the site has served so far for each sitemap URL: a
\*             document, or the failure of its fetch or parse
\* smFetched   how many GETs each sitemap URL received (2 stands for "twice
\*             or more")
\* smWarnings  the st.warning calls, in order
\* smExhausted the interpreter's call stack ran full (RecursionError)
\* smRoom      the deepest nesting at which an except clause still has the
\*             stack to run st.warning
\* smResult    the value returned to the caller
VARIABLES smStack, smDocs, smFetched, smWarnings, smExhausted, smRoom, smResult, smpc

smVars == <<smStack, smDocs, smFetched, smWarnings, smExhausted, smRoom, smResult, smpc>>

\* Crawler (crawl_site):
\* start_url, max_pages  the arguments
\* root_domain           urlparse(start_url).netloc
\* to_visit, seen, all_urls  the frontier, the seen-set and the result set
\* pages         what the site has served so far for each (netloc, path)
\* crawlFetched  the URLs fetch_html was called with, in order
\* slept         the number of time.sleep(delay) calls
\* cpc           "idle", "loop" or "done"
VARIABLES start_url, max_pages, root_domain, to_visit, seen, all_urls, pages,
          crawlFetched, slept, cpc

crawlVars == <<start_url, max_pages, root_domain, to_visit, seen, all_urls, pages,
               crawlFetched, slept, cpc>>

\* The run (main):
\* root_url, terms_text, use_sitemap, use_crawler, custom_sitemap, crawl_limit,
\* run_button   the widgets' values
\* main_terms    the list terms of main
\* main_all_urls the set all_urls of main
\* scan_queue    what is left of sorted(all_urls) in the scan loop
\* scanFetched   the URLs the scan loop called fetch_html with, in order
\* page_texts    for each of them, whether fetch_html gave html, and the text
\*               extract_visible_text made of it
\* results_rows  the match records
\* messages      the st.error, st.warning and st.success calls, in order
\* pc            the place in main
VARIABLES root_url, terms_text, use_sitemap, use_crawler, custom_sitemap, crawl_limit,
          run_button, main_terms, main_all_urls, scan_queue, scanFetched, page_texts, results_rows,
          messages, pc

mainVars == <<root_url, terms_text, use_sitemap, use_crawler, custom_sitemap, crawl_limit,
              run_button, main_terms, main_all_urls, scan_queue, scanFetched, page_texts, results_rows,
              messages, pc>>

vars == <<matchVars, smVars, crawlVars, mainVars>>
notMatch == <<smVars, crawlVars, mainVars>>
notSm == <<matchVars, crawlVars, mainVars>>
notCrawl == <<matchVars, smVars, mainVars>>

\* ------------------------------------------------------------------------
\* Python string primitives
\* ------------------------------------------------------------------------
Min(a, b) == IF a < b THEN a ELSE b
Max(a, b) == IF a > b THEN a ELSE b

\* s[a:b] for 0 <= a, 0 <= b (0-based, end exclusive, clamped to len(s)).
Slice(s, a, b) == SubSeq(s, a + 1, Min(b, Len(s)))

Rep(c, n) == [i \in 1..n |-> c]

Whitespace == {" ", "\n", "\t"}

RECURSIVE LStrip(_)
LStrip(s) == IF s # <<>> /\ Head(s) \in Whitespace THEN LStrip(Tail(s)) ELSE s

RECURSIVE RStrip(_)
RStrip(s) ==
    IF s # <<>> /\ s[Len(s)] \in Whitespace THEN RStrip(SubSeq(s, 1, Len(s) - 1)) ELSE s

\* str.strip()
Strip(s) == RStrip(LStrip(s))

\* str.lower() of one code point.  Lowercasing is not length preserving:
\* U+0130 lowers to the two code points "i" U+0307.
LowerChar(c) ==
    CASE c = "A" -> <<"a">>
      [] c = "B" -> <<"b">>
      [] c = "P" -> <<"p">>
      [] c = "D" -> <<"d">>
      [] c = "F" -> <<"f">>
      [] c = "U0130" -> <<"i", "U0307">>
      [] OTHER -> <<c>>

\* str.lower(): code point by code point (split in halves to keep the
\* evaluation shallow on long texts).
RECURSIVE Lower(_)
Lower(s) ==
    IF s = <<>> THEN <<>>
    ELSE IF Len(s) = 1 THEN LowerChar(s[1])
    ELSE LET h == Len(s) \div 2
         IN  Lower(SubSeq(s, 1, h)) \o Lower(SubSeq(s, h + 1, Len(s)))

\* str.find(sub, start): the lowest index idx >= start with
\* s[idx:idx+len(sub)] = sub, or -1.
Find(s, sub, start) ==
    LET At(i) == \A k \in 1..Len(sub) : s[i + k] = sub[k]
        range == start..(Len(s) - Len(sub))
    IN  IF \E i \in range : At(i)
        THEN CHOOSE i \in range : At(i) /\ \A j \in start..(i - 1) : ~At(j)
        ELSE -1

\* sub in s
Contains(s, sub) == Find(s, sub, 0) # -1

\* ------------------------------------------------------------------------
\* Matcher: search_terms_in_text
\* ------------------------------------------------------------------------
\* The context radius of a snippet (the literal 60 of the window arithmetic).
ContextRadius == 60

\* start = idx + len(lower_term)
NextStartStuck(idx, lower_term) == idx
NextStartByOne(idx, lower_term) == idx + 1
NextStart(idx, lower_term) == idx + Len(lower_term)

\* The while loop of one term: the values idx takes (other than -1), in order.
RECURSIVE MatchPositions(_, _, _)
MatchPositions(lower_text, lower_term, start) ==
    LET idx == Find(lower_text, lower_term, start)
    IN  IF idx = -1 THEN <<>>
        ELSE <<idx>> \o MatchPositions(lower_text, lower_term, NextStart(idx, lower_term))

\* snippet_start, snippet_end and the stripped slice of the original text.
Snippet(txt, term, idx) ==
    LET snippet_start == Max(0, idx - ContextRadius)
        snippet_end == Min(Len(txt), idx + Len(term) + ContextRadius)
    IN  Strip(Slice(txt, snippet_start, snippet_end))

\* The snippets one term's loop appends, in order.
TermSnippets(txt, term, positions) ==
    [j \in 1..Len(positions) |-> Snippet(txt, term, positions[j])]

\* results[term].append(snippet), once per snippet, on a defaultdict(list):
\* the key appears with the first append.  The mapping is kept as the
\* sequence of its items in insertion order.
DictKeys(d) == {d[i].term : i \in 1..Len(d)}
DictGet(d, term) == (CHOOSE i \in 1..Len(d) : d[i].term = term)
DictAppendAll(d, term, snippets) ==
    IF snippets = <<>> THEN d
    ELSE IF term \in DictKeys(d)
    THEN [d EXCEPT ![DictGet(d, term)].snippets = @ \o snippets]
    ELSE Append(d, [term |-> term, snippets |-> snippets])

\* for term in terms: ... ; return results
RECURSIVE search_terms_in_text_from(_, _, _, _)
search_terms_in_text_from(d, txt, lower_text, tms) ==
    IF tms = <<>> THEN d
    ELSE LET term == Head(tms)
             positions == MatchPositions(lower_text, Lower(term), 0)
         IN  search_terms_in_text_from(
                 DictAppendAll(d, term, TermSnippets(txt, term, positions)), txt,
                 lower_text, Tail(tms))

\* results = defaultdict(list); lower_text = text.lower(); the loop; return.
search_terms_in_text(txt, tms) ==
    LET lower_text == Lower(txt)
    IN  search_terms_in_text_from(<<>>, txt, lower_text, tms)

\* The match indexes the scan of each term of the list went through.
ScanLog(txt, tms) ==
    LET lower_text == Lower(txt)
    IN  [k \in 1..Len(tms) |-> MatchPositions(lower_text, Lower(tms[k]), 0)]

\* Inputs of the matcher: a body of up to MaxBody characters between a left
\* and a right run of padding, and a list of up to MaxTerms terms, each
\* non-empty and free of surrounding whitespace (as main() passes them).
BodyAlphabet == {"a", "B", " ", "U0130"}
Bodies == UNION {[1..n -> BodyAlphabet] : n \in 0..MaxBody}
Pads == { <<(<<>>), (<<>>)>>,
          <<Rep("x", ContextRadius + 1), Rep("x", ContextRadius + 1)>>,
          <<Rep("U0130", ContextRadius + 1), (<<>>)>> }
Texts == {p[1] \o b \o p[2] : p \in Pads, b \in Bodies}
TermChoices == {<<"A", "b">>, <<"a", "a">>, <<"U0130", "U0130">>}
TermLists == UNION {[1..n -> TermChoices] : n \in 1..MaxTerms}

MatchInit ==
    /\ text \in Texts
    /\ terms \in TermLists
    /\ results = <<>>
    /\ hits = <<>>
    /\ termIdx = 0
    /\ scanStart = 0
    /\ scanIdx = -1
    /\ mpc = "call"

MatchIdle ==
    /\ text = <<>>
    /\ terms = <<>>
    /\ results = <<>>
    /\ hits = <<>>
    /\ termIdx = 0
    /\ scanStart = 0
    /\ scanIdx = -1
    /\ mpc = "idle"

Search ==
    /\ mpc = "call"
    /\ results' = search_terms_in_text(text, terms)
    /\ hits' = ScanLog(text, terms)
    /\ mpc' = "returned"
    /\ UNCHANGED <<text, terms, termIdx, scanStart, scanIdx>>
    /\ UNCHANGED notMatch

\* ------------------------------------------------------------------------
\* Sitemap resolver: get_urls_from_sitemap
\* ------------------------------------------------------------------------
\* loc texts of <sitemap> and of <url> entries; <<>> is an entry without a
\* <loc>, or with an empty one.
SitemapLocs == << <<"r">>, <<"s">>, <<" ", "t">> >>
UrlLocs == << <<"p">>, <<" ", "q">> >>
\* The site of the run of main: its root URL as typed, its default sitemap
\* URL and the page URLs its sitemap lists.
MainRootText == <<"h", "t", "t", "p", ":", "/", "/", "m", ".", "i", "o">>
MainSkipText == MainRootText \o <<"/", "b", ".", "P", "D", "F">>
SITEMAP_XML == <<"/", "s", "i", "t", "e", "m", "a", "p", ".", "x", "m", "l">>
MainSitemapUrls == {MainRootText \o SITEMAP_XML, MainSkipText \o SITEMAP_XML}
MainUrlLocs == << MainRootText \o <<"/", "a">>, <<" ">> \o MainRootText \o <<"/", " ">> >>
SmUrls == {Strip(SitemapLocs[i]) : i \in 1..Len(SitemapLocs)} \cup MainSitemapUrls
EntryUrl == <<"r">>
LeafUrl == <<"t">>

Doc(sitemaps, urls) == [sitemaps |-> sitemaps, urls |-> urls, fails |-> ""]
\* The lists of lo..MaxLocs entries over locs, up to the order of the entries.
LocLists(locs, lo) ==
    UNION {{[i \in 1..n |-> locs[f[i]]] :
               f \in {g \in [1..n -> 1..Len(locs)] : \A i \in 1..(n - 1) : g[i] <= g[i + 1]}} :
           n \in lo..MaxLocs}
IndexDocs == {Doc(l, <<>>) : l \in LocLists(SitemapLocs, 1)}
FlatDocs == {Doc(<<>>, l) : l \in LocLists(UrlLocs, 0)}
\* An index with an entry without loc text and with <url> entries beside its
\* <sitemap> entries; a flat sitemap with an entry without loc text.
OddDocs == {Doc(<<(<<>>), <<"s">> >>, <<(<<"p">>)>>), Doc(<<>>, <<(<<>>), <<"q">> >>)}
\* A URL whose GET fails (connection, timeout, status) or whose body does
\* not parse.
FailedDocs == {[sitemaps |-> <<>>, urls |-> <<>>, fails |-> e] :
                  e \in {"RequestException", "ParseError"}}
Documents == IndexDocs \cup FlatDocs \cup OddDocs \cup FailedDocs
\* What a sitemap URL may serve: LeafUrl names a flat sitemap.
\* The sitemap of the site of the run of main: a flat one, one whose GET
\* fails, or an index that names itself.
MainDocs(url) == { Doc(<<>>, MainUrlLocs),
                   [sitemaps |-> <<>>, urls |-> <<>>, fails |-> "RequestException"],
                   Doc(<<url>>, <<>>) }
DocumentsAt(url) ==
    IF url = LeafUrl THEN FlatDocs \cup FailedDocs
    ELSE IF url \in MainSitemapUrls THEN MainDocs(url)
    ELSE Documents

\* if loc and loc.text
HasLoc(loc) == loc # <<>>

\* for url_tag in soup.find_all("url"): ... urls.add(loc.text.strip())
FlatUrls(doc) == {Strip(doc.urls[i]) : i \in {j \in 1..Len(doc.urls) : HasLoc(doc.urls[j])}}

\* urls.update(<the nested call's result>)
UpdateOverwrites(urls, more) == more
Update(urls, more) == urls \cup more

\* except Exception as e: every failure of the body is caught.
CaughtRequestErrorsOnly(exc) == exc = "RequestException"
Caught(exc) == exc \in {"RequestException", "ParseError", "RecursionError"}

Frame(url) == [url |-> url, soup |-> [sitemaps |-> <<>>, urls |-> <<>>], i |-> 1,
               urls |-> {}, exc |-> "", pcf |-> "fetch"]

Top == smStack[Len(smStack)]
SetTop(f) == [smStack EXCEPT ![Len(smStack)] = f]
Bump(n) == IF n >= 2 THEN 2 ELSE n + 1

\* A handler that runs where the stack ran full, or one call above it.
HandlerRooms == {RecursionLimit - 1, RecursionLimit}

SmIdle ==
    /\ smStack = <<>>
    /\ smDocs = <<>>
    /\ smFetched = [u \in SmUrls |-> 0]
    /\ smWarnings = <<>>
    /\ smExhausted = FALSE
    /\ smRoom = RecursionLimit
    /\ smResult = {}
    /\ smpc = "idle"

\* get_urls_from_sitemap(session, sitemap_url) is called by the run.
SmInit ==
    /\ smStack = <<Frame(EntryUrl)>>
    /\ smDocs = <<>>
    /\ smFetched = [u \in SmUrls |-> 0]
    /\ smWarnings = <<>>
    /\ smExhausted = FALSE
    /\ smRoom \in HandlerRooms
    /\ smResult = {}
    /\ smpc = "resolving"

\* resp = session.get(...); raise_for_status(); BeautifulSoup(resp.text, "xml").
\* If the GET or the parse fails, control passes to the except clause with
\* urls still empty.  A flat sitemap is read to its end.
SmFetch ==
    /\ smpc = "resolving"
    /\ Top.pcf = "fetch"
    /\ Len(smStack) < RecursionLimit
    /\ \E doc \in DocumentsAt(Top.url) :
          /\ Top.url \in DOMAIN smDocs => doc = smDocs[Top.url]
          /\ smDocs' = IF Top.url \in DOMAIN smDocs THEN smDocs ELSE smDocs @@ (Top.url :> doc)
          /\ smStack' =
                IF doc.fails # ""
                THEN SetTop([Top EXCEPT !.exc = doc.fails, !.pcf = "except"])
                ELSE IF doc.sitemaps # <<>>
                THEN SetTop([Top EXCEPT !.soup = doc, !.pcf = "index"])
                ELSE SetTop([Top EXCEPT !.soup = doc, !.urls = FlatUrls(doc), !.pcf = "return"])
    /\ smFetched' = [smFetched EXCEPT ![Top.url] = Bump(@)]
    /\ UNCHANGED <<smWarnings, smExhausted, smRoom, smResult, smpc>>
    /\ UNCHANGED notSm

\* The code bounds neither depth nor node count: the nesting ends only when
\* the interpreter's call stack is full and the calls below session.get
\* raise RecursionError.
SmStackFull ==
    /\ smpc = "resolving"
    /\ Top.pcf = "fetch"
    /\ Len(smStack) >= RecursionLimit
    /\ smStack' = SetTop([Top EXCEPT !.exc = "RecursionError", !.pcf = "except"])
    /\ smExhausted' = TRUE
    /\ UNCHANGED <<smDocs, smFetched, smWarnings, smRoom, smResult, smpc>>
    /\ UNCHANGED notSm

\* except Exception as e: st.warning(...), then return urls.
SmExcept ==
    /\ smpc = "resolving"
    /\ Top.pcf = "except"
    /\ Caught(Top.exc)
    /\ Top.exc = "RecursionError" => Len(smStack) <= smRoom
    /\ smStack' = SetTop([Top EXCEPT !.exc = "", !.pcf = "return"])
    /\ smWarnings' = Append(smWarnings, Top.url)
    /\ UNCHANGED <<smDocs, smFetched, smExhausted, smRoom, smResult, smpc>>
    /\ UNCHANGED notSm

\* The exception leaves the call and reaches the caller's try, or the run.
\* That happens to an exception the clause does not catch, and to a
\* RecursionError whose handler has no stack left to run st.warning.
SmRaise ==
    /\ smpc = "resolving"
    /\ Top.pcf = "except"
    /\ ~Caught(Top.exc) \/ (Top.exc = "RecursionError" /\ Len(smStack) > smRoom)
    /\ IF Len(smStack) = 1
       THEN /\ smStack' = <<>>
            /\ smpc' = "raised"
       ELSE /\ smStack' = [SubSeq(smStack, 1, Len(smStack) - 1)
                             EXCEPT ![Len(smStack) - 1].exc = Top.exc,
                                    ![Len(smStack) - 1].pcf = "except"]
            /\ UNCHANGED smpc
    /\ UNCHANGED <<smDocs, smFetched, smWarnings, smExhausted, smRoom, smResult>>
    /\ UNCHANGED notSm

\* for sm in sitemap_tags: an entry without loc text is passed over, the
\* others are resolved by a nested call; after the last one, return urls.
SmLoop ==
    /\ smpc = "resolving"
    /\ Top.pcf = "index"
    /\ IF Top.i > Len(Top.soup.sitemaps)
       THEN smStack' = SetTop([Top EXCEPT !.pcf = "return"])
       ELSE IF ~HasLoc(Top.soup.sitemaps[Top.i])
       THEN smStack' = SetTop([Top EXCEPT !.i = @ + 1])
       ELSE smStack' = Append(smStack, Frame(Strip(Top.soup.sitemaps[Top.i])))
    /\ UNCHANGED <<smDocs, smFetched, smWarnings, smExhausted, smRoom, smResult, smpc>>
    /\ UNCHANGED notSm

\* return urls: to the nested call's caller, which adds them to its own set
\* and moves to the next entry, or to the run.
SmReturn ==
    /\ smpc = "resolving"
    /\ Top.pcf = "return"
    /\ IF Len(smStack) = 1
       THEN /\ smResult' = Top.urls
            /\ smStack' = <<>>
            /\ smpc' = "done"
       ELSE /\ smStack' = [SubSeq(smStack, 1, Len(smStack) - 1)
                             EXCEPT ![Len(smStack) - 1].urls = Update(@, Top.urls),
                                    ![Len(smStack) - 1].i = @ + 1]
            /\ UNCHANGED <<smResult, smpc>>
    /\ UNCHANGED <<smDocs, smFetched, smWarnings, smExhausted, smRoom>>
    /\ UNCHANGED notSm

SmNext == SmFetch \/ SmStackFull \/ SmExcept \/ SmRaise \/ SmLoop \/ SmReturn

\* ------------------------------------------------------------------------
\* URLs and the URL filter
\* ------------------------------------------------------------------------
\* A URL as urlparse splits it.  An href has the same parts; a relative one
\* has no scheme and no netloc.
Url(scheme, netloc, path, fragment) ==
    [scheme |-> scheme, netloc |-> netloc, path |-> path, fragment |-> fragment]

HTTP == <<"h", "t", "t", "p">>
JAVASCRIPT == <<"j", "a", "v", "a", "s", "c", "r", "i", "p", "t">>
MAILTO == <<"m", "a", "i", "l", "t", "o">>
SiteHost == <<"a", ".", "i", "o">>
MainHost == <<"m", ".", "i", "o">>
WwwHost == <<"w", "w", "w", ".", "a", ".", "i", "o">>

\* ParseResult.geturl(): the URL as one string.
geturl(u) ==
    (IF u.scheme # <<>> THEN u.scheme \o <<":">> ELSE <<>>)
    \o (IF u.netloc # <<>> THEN <<"/", "/">> \o u.netloc ELSE <<>>)
    \o u.path
    \o (IF u.fragment # <<>> THEN <<"#">> \o u.fragment ELSE <<>>)

\* parsed.netloc == "" or parsed.netloc == root_domain
is_internal_url_by_suffix(url, domain) ==
    \/ url.netloc = <<>>
    \/ /\ Len(url.netloc) >= Len(domain)
       /\ SubSeq(url.netloc, Len(url.netloc) - Len(domain) + 1, Len(url.netloc)) = domain
is_internal_url(url, domain) == url.netloc = <<>> \/ url.netloc = domain

EXCLUDE_PATTERNS ==
    { <<".", "p", "d", "f">>,
      <<".", "j", "p", "g">>,
      <<".", "j", "p", "e", "g">>,
      <<".", "p", "n", "g">>,
      <<".", "g", "i", "f">>,
      <<".", "s", "v", "g">>,
      <<".", "w", "e", "b", "p">>,
      <<".", "c", "s", "s">>,
      <<".", "j", "s">>,
      <<".", "i", "c", "o">>,
      <<"/", "w", "p", "-", "a", "d", "m", "i", "n">>,
      <<"/", "w", "p", "-", "l", "o", "g", "i", "n">>,
      <<"m", "a", "i", "l", "t", "o", ":">>,
      <<"t", "e", "l", ":">> }

\* any(pat in url.lower() for pat in EXCLUDE_PATTERNS)
should_skip_url(url) ==
    LET lower == Lower(geturl(url))
    IN  \E pat \in EXCLUDE_PATTERNS : Contains(lower, pat)

\* urljoin(current, href): an href with a scheme of its own stands as it is;
\* one with a netloc keeps it; one with a path replaces the path; an empty
\* one gives the base.
urljoin(base, href) ==
    IF href.scheme # <<>> /\ href.scheme # base.scheme THEN href
    ELSE IF href.netloc # <<>> THEN Url(base.scheme, href.netloc, href.path, href.fragment)
    ELSE IF href.path # <<>> THEN Url(base.scheme, base.netloc, href.path, href.fragment)
    ELSE IF href.fragment # <<>> THEN Url(base.scheme, base.netloc, base.path, href.fragment)
    ELSE base

\* parsed._replace(fragment="").geturl()
Normalized(u) == [u EXCEPT !.fragment = <<>>]

\* href.startswith("#")
StartsWithHash(href) ==
    href.scheme = <<>> /\ href.netloc = <<>> /\ href.path = <<>> /\ href.fragment # <<>>

\* ------------------------------------------------------------------------
\* The site the crawler walks
\* ------------------------------------------------------------------------
Rel(path, fragment) == Url(<<>>, <<>>, path, fragment)
RootPath == <<"/">>
PathA == <<"/", "a">>
PathC == <<"/", "c">>

\* The hrefs a page may hold: links to the three pages (one with a
\* fragment), a self link, a link to a subdomain, a javascript: link and a
\* link to a PDF.
RootHrefs == << Rel(PathA, <<>>), Rel(PathC, <<"f">>), Rel(RootPath, <<>>),
                Url(HTTP, WwwHost, PathA, <<>>), Url(JAVASCRIPT, <<>>, <<"v">>, <<>>),
                Rel(<<"/", "b", ".", "P", "D", "F">>, <<>>) >>
AHrefs == << Rel(RootPath, <<>>), Rel(PathC, <<>>), Rel(PathA, <<"f">>) >>
CHrefs == << Rel(PathA, <<>>), Url(HTTP, SiteHost, PathC, <<"f">>) >>
\* A page with an in-page fragment link and a mailto: link.
OddLinks == << Rel(<<>>, <<"f">>), Url(MAILTO, <<>>, <<"m">>, <<>>) >>

\* The links of the root page of the site of the run of main.
MainHrefs == << Rel(PathA, <<"f">>), Rel(PathA, <<>>), Rel(RootPath, <<>>) >>

\* The lists of up to MaxLinks hrefs over hrefs, and those among them that
\* keep the order of hrefs.
LinkLists(hrefs) ==
    UNION {{[i \in 1..n |-> hrefs[f[i]]] : f \in [1..n -> 1..Len(hrefs)]} : n \in 0..MaxLinks}
OrderedLinkLists(hrefs) ==
    UNION {{[i \in 1..n |-> hrefs[f[i]]] :
               f \in {g \in [1..n -> 1..Len(hrefs)] : \A i \in 1..(n - 1) : g[i] <= g[i + 1]}} :
           n \in 0..MaxLinks}

\* A served page: html (its anchors' hrefs), or no html (a status other than
\* 200, another content type, a timeout, an empty body).
Page(links) == [html |-> TRUE, links |-> links]
NoPage == [html |-> FALSE, links |-> <<>>]
\* A response that fetch_html turns into None (its status is not 200, or its
\* content type is not text/html) although its body holds a link.
ErrorPage == [html |-> FALSE, links |-> <<Rel(PathC, <<>>)>>]

PagesAt(key) ==
    {NoPage} \cup (IF key = <<SiteHost, PathA>> THEN {ErrorPage} ELSE {}) \cup
    {Page(l) : l \in
        IF key = <<SiteHost, RootPath>> THEN OrderedLinkLists(RootHrefs) \cup {OddLinks}
        ELSE IF key = <<SiteHost, PathA>> THEN LinkLists(AHrefs)
        ELSE IF key = <<SiteHost, PathC>> THEN LinkLists(CHrefs)
        ELSE IF key = <<MainHost, RootPath>> THEN {MainHrefs}
        ELSE {<<>>}}

\* The start URLs: the root, the root with a fragment, and a URL that the
\* skip predicate matches.
StartUrls == { Url(HTTP, SiteHost, RootPath, <<>>),
               Url(HTTP, SiteHost, RootPath, <<"f">>),
               Url(HTTP, SiteHost, <<"/", "b", ".", "P", "D", "F">>, <<>>) }

\* Every href of the site, and every URL the crawler can come to hold.
AllHrefs ==
    {RootHrefs[i] : i \in 1..Len(RootHrefs)} \cup {AHrefs[i] : i \in 1..Len(AHrefs)}
    \cup {CHrefs[i] : i \in 1..Len(CHrefs)} \cup {OddLinks[i] : i \in 1..Len(OddLinks)}
JoinAll(bases) == bases \cup {urljoin(b, h) : b \in bases, h \in AllHrefs}
                        \cup {Normalized(urljoin(b, h)) : b \in bases, h \in AllHrefs}
MainStartUrls == { Url(HTTP, MainHost, <<>>, <<>>), Url(HTTP, MainHost, RootPath, <<>>),
                   Url(HTTP, MainHost, <<"/", "b", ".", "P", "D", "F">>, <<>>) }
CrawlUrls == JoinAll(JoinAll(StartUrls)) \cup JoinAll(MainStartUrls)

\* should_skip_url over CrawlUrls, evaluated once.
SkipMatched == [u \in CrawlUrls |-> should_skip_url(u)]

\* The page a GET of url names (the fragment is not sent).
PageKey(url) == <<url.netloc, IF url.path = <<>> THEN RootPath ELSE url.path>>

\* session.get raises (caught by fetch_html) unless the URL is an http URL
\* with a host.
Requestable(url) == url.scheme = HTTP /\ url.netloc # <<>>

\* ------------------------------------------------------------------------
\* Crawler: crawl_site
\* ------------------------------------------------------------------------
\* while to_visit and len(seen) < max_pages
LoopGuardInclusive(frontier, seenSet, budget) ==
    frontier # <<>> /\ Cardinality(seenSet) <= budget
LoopGuard(frontier, seenSet, budget) ==
    frontier # <<>> /\ Cardinality(seenSet) < budget

\* to_visit.pop(0): what stays in the list.
AfterPopKeeps(frontier) == frontier
AfterPop(frontier) == Tail(frontier)

\* The loop over the anchors of a page: the URLs appended to to_visit.
RECURSIVE DiscoveredSeenToo(_, _, _, _)
DiscoveredSeenToo(current, hrefs, seenSet, domain) ==
    IF hrefs = <<>> THEN <<>>
    ELSE LET href == Head(hrefs)
             absolute == urljoin(current, href)
             normalized == Normalized(absolute)
             rest == DiscoveredSeenToo(current, Tail(hrefs), seenSet, domain)
         IN  IF StartsWithHash(href) THEN rest
             ELSE IF ~is_internal_url(absolute, domain) THEN rest
             ELSE IF ~SkipMatched[normalized]
             THEN <<normalized>> \o rest
             ELSE rest
RECURSIVE Discovered(_, _, _, _)
Discovered(current, hrefs, seenSet, domain) ==
    IF hrefs = <<>> THEN <<>>
    ELSE LET href == Head(hrefs)
             absolute == urljoin(current, href)
             normalized == Normalized(absolute)
             rest == Discovered(current, Tail(hrefs), seenSet, domain)
         IN  IF StartsWithHash(href) THEN rest
             ELSE IF ~is_internal_url(absolute, domain) THEN rest
             ELSE IF normalized \notin seenSet /\ ~SkipMatched[normalized]
             THEN <<normalized>> \o rest
             ELSE rest

\* to_visit.append for each link that passed the filters, in document order.
ExtendAtFront(queue, found) == found \o queue
Extend(queue, found) == queue \o found

CrawlIdle ==
    /\ start_url = Url(<<>>, <<>>, <<>>, <<>>)
    /\ max_pages = 0
    /\ root_domain = <<>>
    /\ to_visit = <<>>
    /\ seen = {}
    /\ all_urls = {}
    /\ pages = <<>>
    /\ crawlFetched = <<>>
    /\ slept = 0
    /\ cpc = "idle"

\* crawl_site(session, start_url, max_pages, delay) is called.
CrawlInit ==
    /\ start_url \in StartUrls
    /\ max_pages \in 0..MaxBudget
    /\ root_domain = start_url.netloc
    /\ to_visit = <<start_url>>
    /\ seen = {}
    /\ all_urls = {}
    /\ pages = <<>>
    /\ crawlFetched = <<>>
    /\ slept = 0
    /\ cpc = "loop"

currentNewest == to_visit[Len(to_visit)]
current == Head(to_visit)

\* An iteration that pops a URL already seen: continue.
CrawlSeen ==
    /\ cpc = "loop"
    /\ LoopGuard(to_visit, seen, max_pages)
    /\ current \in seen
    /\ to_visit' = AfterPop(to_visit)
    /\ UNCHANGED <<start_url, max_pages, root_domain, seen, all_urls, pages, crawlFetched,
                   slept, cpc>>
    /\ UNCHANGED notCrawl

\* An iteration that pops a skip-matched URL: marked seen, continue.
CrawlSkipUncounted ==
    /\ cpc = "loop"
    /\ LoopGuard(to_visit, seen, max_pages)
    /\ current \notin seen
    /\ SkipMatched[current]
    /\ to_visit' = AfterPop(to_visit)
    /\ UNCHANGED <<start_url, max_pages, root_domain, seen, all_urls, pages, crawlFetched,
                   slept, cpc>>
    /\ UNCHANGED notCrawl
CrawlSkip ==
    /\ cpc = "loop"
    /\ LoopGuard(to_visit, seen, max_pages)
    /\ current \notin seen
    /\ SkipMatched[current]
    /\ to_visit' = AfterPop(to_visit)
    /\ seen' = seen \cup {current}
    /\ UNCHANGED <<start_url, max_pages, root_domain, all_urls, pages, crawlFetched,
                   slept, cpc>>
    /\ UNCHANGED notCrawl

\* An iteration whose fetch_html gives no html: marked seen, continue.
CrawlNoHtmlFollowsLinks ==
    /\ cpc = "loop"
    /\ LoopGuard(to_visit, seen, max_pages)
    /\ current \notin seen
    /\ ~SkipMatched[current]
    /\ Requestable(current)
    /\ \E page \in {q \in PagesAt(PageKey(current)) : ~q.html} :
          /\ PageKey(current) \in DOMAIN pages => page = pages[PageKey(current)]
          /\ pages' = IF PageKey(current) \in DOMAIN pages THEN pages
                      ELSE pages @@ (PageKey(current) :> page)
          /\ to_visit' = AfterPop(to_visit)
                           \o Discovered(current, page.links, seen \cup {current}, root_domain)
    /\ seen' = seen \cup {current}
    /\ crawlFetched' = Append(crawlFetched, current)
    /\ UNCHANGED <<start_url, max_pages, root_domain, all_urls, slept, cpc>>
    /\ UNCHANGED notCrawl
CrawlNoHtml ==
    /\ cpc = "loop"
    /\ LoopGuard(to_visit, seen, max_pages)
    /\ current \notin seen
    /\ ~SkipMatched[current]
    /\ \/ /\ ~Requestable(current)
          /\ UNCHANGED pages
       \/ /\ Requestable(current)
          /\ \E page \in {q \in PagesAt(PageKey(current)) : ~q.html} :
                /\ PageKey(current) \in DOMAIN pages => page = pages[PageKey(current)]
                /\ pages' = IF PageKey(current) \in DOMAIN pages THEN pages
                            ELSE pages @@ (PageKey(current) :> page)
    /\ to_visit' = AfterPop(to_visit)
    /\ seen' = seen \cup {current}
    /\ crawlFetched' = Append(crawlFetched, current)
    /\ UNCHANGED <<start_url, max_pages, root_domain, all_urls, slept, cpc>>
    /\ UNCHANGED notCrawl

\* An iteration whose fetch_html gives html: the URL joins the result, the
\* links of the page are filtered into the frontier, and the loop sleeps.
CrawlHtml ==
    /\ cpc = "loop"
    /\ LoopGuard(to_visit, seen, max_pages)
    /\ current \notin seen
    /\ ~SkipMatched[current]
    /\ Requestable(current)
    /\ \E page \in {q \in PagesAt(PageKey(current)) : q.html} :
          /\ PageKey(current) \in DOMAIN pages => page = pages[PageKey(current)]
          /\ pages' = IF PageKey(current) \in DOMAIN pages THEN pages
                      ELSE pages @@ (PageKey(current) :> page)
          /\ to_visit' = Extend(AfterPop(to_visit),
                                 Discovered(current, page.links, seen \cup {current},
                                            root_domain))
    /\ seen' = seen \cup {current}
    /\ all_urls' = all_urls \cup {current}
    /\ crawlFetched' = Append(crawlFetched, current)
    /\ slept' = slept + 1
    /\ UNCHANGED <<start_url, max_pages, root_domain, cpc>>
    /\ UNCHANGED notCrawl

\* The loop condition fails: return all_urls.
CrawlReturn ==
    /\ cpc = "loop"
    /\ ~LoopGuard(to_visit, seen, max_pages)
    /\ cpc' = "done"
    /\ UNCHANGED <<start_url, max_pages, root_domain, to_visit, seen, all_urls, pages,
                   crawlFetched, slept>>
    /\ UNCHANGED notCrawl

CrawlNext == CrawlSeen \/ CrawlSkip \/ CrawlNoHtml \/ CrawlHtml \/ CrawlReturn

\* ------------------------------------------------------------------------
\* The run: main
\* ------------------------------------------------------------------------
\* Code points of the characters of URLs, in ascending order (str comparison
\* in sorted() is by code point).
CodePoints == << "\t", "\n", " ", "#", "-", ".", "/", ":", "A", "B", "D", "F", "P",
                 "a", "b", "c", "d", "e", "f", "g", "h", "i", "j", "k", "l", "m",
                 "n", "o", "p", "q", "r", "s", "t", "u", "v", "w", "x", "y", "z" >>
Ord(c) == CHOOSE i \in 1..Len(CodePoints) : CodePoints[i] = c

\* a < b on str
RECURSIVE StrLess(_, _)
StrLess(a, b) ==
    IF b = <<>> THEN FALSE
    ELSE IF a = <<>> THEN TRUE
    ELSE IF Head(a) = Head(b) THEN StrLess(Tail(a), Tail(b))
    ELSE Ord(Head(a)) < Ord(Head(b))

\* sorted(all_urls)
RECURSIVE Sorted(_)
Sorted(S) ==
    IF S = {} THEN <<>>
    ELSE LET least == CHOOSE a \in S : \A b \in S \ {a} : StrLess(a, b)
         IN  <<least>> \o Sorted(S \ {least})

\* str.splitlines(): the lines between line breaks; a final line break opens
\* no further line.
RECURSIVE SplitLines(_)
SplitLines(s) ==
    IF s = <<>> THEN <<>>
    ELSE LET nl == Find(s, <<"\n">>, 0)
         IN  IF nl = -1 THEN <<s>>
             ELSE <<Slice(s, 0, nl)>> \o SplitLines(Slice(s, nl + 1, Len(s)))

\* [t.strip() for t in lines if t.strip()]
RECURSIVE StrippedNonBlank(_)
StrippedNonBlank(lines) ==
    IF lines = <<>> THEN <<>>
    ELSE (IF Strip(Head(lines)) # <<>> THEN <<Strip(Head(lines))>> ELSE <<>>)
         \o StrippedNonBlank(Tail(lines))

\* terms = [t.strip() for t in terms_text.splitlines() if t.strip()]
ParseTerms(txt) == StrippedNonBlank(SplitLines(txt))

\* if not root_url.strip()
NoRoot(url) == Strip(url) = <<>>

\* if not terms
NoTermsUnchecked(tms) == FALSE
NoTerms(tms) == tms = <<>>

\* str.rstrip("/")
RECURSIVE RStripSlash(_)
RStripSlash(s) ==
    IF s # <<>> /\ s[Len(s)] = "/" THEN RStripSlash(SubSeq(s, 1, Len(s) - 1)) ELSE s

\* The sitemap URL of the run: the custom one, or root_url + "/sitemap.xml".
SitemapUrlOf(root, custom) ==
    IF Strip(custom) # <<>> THEN Strip(custom)
    ELSE IF root = <<>> \/ root[Len(root)] # "/" THEN root \o SITEMAP_XML
    ELSE RStripSlash(root) \o SITEMAP_XML

\* urlparse(s), for the strings the run holds.
urlparse(s) ==
    IF \E u \in CrawlUrls : geturl(u) = s
    THEN CHOOSE u \in CrawlUrls : geturl(u) = s
    ELSE Url(<<>>, <<>>, s, <<>>)

\* The slider of crawl_limit starts at 10; without the crawler crawl_limit is 0.
SliderMin == 10
CrawlLimits(crawler) == IF crawler THEN {SliderMin} ELSE {0}

\* What the widgets may hold.
RootInputs == {<<>>, <<" ">>, MainRootText, MainRootText \o <<"/">>, MainSkipText}
TermsInputs == { <<>>, <<" ", "\n", "\t">>, <<"A", "b">>,
                 <<" ", "a", "a", " ", "\n", "\n", "A", "b", "\n">>,
                 <<"a", "\n", "a">> }
CustomInputs == {<<>>, <<" ", "t">>}

\* extract_visible_text(html) of the pages of the site.
ScanTexts == { <<"a", "B", " ", "a", "a", "a">> }

\* for term, snippets in matches.items(): for snippet in snippets: append.
RECURSIVE Rows(_, _)
Rows(url, matches) ==
    IF matches = <<>> THEN <<>>
    ELSE [j \in 1..Len(Head(matches).snippets) |->
             [url |-> url, term |-> Head(matches).term, snippet |-> Head(matches).snippets[j]]]
         \o Rows(url, Tail(matches))

MainIdleButTerms ==
    /\ root_url = <<>>
    /\ use_sitemap = FALSE
    /\ use_crawler = FALSE
    /\ custom_sitemap = <<>>
    /\ crawl_limit = 0
    /\ run_button = FALSE
    /\ main_terms = <<>>
    /\ main_all_urls = {}
    /\ scan_queue = <<>>
    /\ scanFetched = <<>>
    /\ page_texts = <<>>
    /\ results_rows = <<>>
    /\ messages = <<>>
    /\ pc = "idle"
MainIdle == terms_text = <<>> /\ MainIdleButTerms

\* A rerun of the script with the widgets' values.
MainInit ==
    /\ root_url \in RootInputs
    /\ terms_text \in TermsInputs
    /\ use_sitemap \in BOOLEAN
    /\ use_crawler \in BOOLEAN
    /\ custom_sitemap \in CustomInputs
    /\ crawl_limit \in CrawlLimits(use_crawler)
    /\ run_button \in BOOLEAN
    /\ main_terms = <<>>
    /\ main_all_urls = {}
    /\ scan_queue = <<>>
    /\ scanFetched = <<>>
    /\ page_texts = <<>>
    /\ results_rows = <<>>
    /\ messages = <<>>
    /\ pc = "run_button"

inputVars == <<root_url, terms_text, use_sitemap, use_crawler, custom_sitemap, crawl_limit,
               run_button>>

\* if not run_button: return
MainNotRun ==
    /\ pc = "run_button"
    /\ ~run_button
    /\ pc' = "returned"
    /\ UNCHANGED <<inputVars, main_terms, main_all_urls, scan_queue, scanFetched, page_texts,
                   results_rows, messages>>
    /\ UNCHANGED <<matchVars, smVars, crawlVars>>

\* if not root_url.strip(): st.error(...); return
MainNoRoot ==
    /\ pc = "run_button"
    /\ run_button
    /\ NoRoot(root_url)
    /\ messages' = Append(messages, "error_root_url")
    /\ pc' = "returned"
    /\ UNCHANGED <<inputVars, main_terms, main_all_urls, scan_queue, scanFetched, page_texts,
                   results_rows>>
    /\ UNCHANGED <<matchVars, smVars, crawlVars>>

\* terms = [...]; if not terms: st.error(...); return
MainNoTerms ==
    /\ pc = "run_button"
    /\ run_button
    /\ ~NoRoot(root_url)
    /\ NoTerms(ParseTerms(terms_text))
    /\ main_terms' = ParseTerms(terms_text)
    /\ messages' = Append(messages, "error_terms")
    /\ pc' = "returned"
    /\ UNCHANGED <<inputVars, main_all_urls, scan_queue, scanFetched, page_texts, results_rows>>
    /\ UNCHANGED <<matchVars, smVars, crawlVars>>

\* Both checks pass: session = make_session(); all_urls = set()
MainValid ==
    /\ pc = "run_button"
    /\ run_button
    /\ ~NoRoot(root_url)
    /\ ~NoTerms(ParseTerms(terms_text))
    /\ main_terms' = ParseTerms(terms_text)
    /\ main_all_urls' = {}
    /\ pc' = "use_sitemap"
    /\ UNCHANGED <<inputVars, scan_queue, scanFetched, page_texts, results_rows, messages>>
    /\ UNCHANGED <<matchVars, smVars, crawlVars>>

\* if use_sitemap: sitemap_urls = get_urls_from_sitemap(session, sitemap_url)
MainSitemapCall ==
    /\ pc = "use_sitemap"
    /\ use_sitemap
    /\ smStack' = <<Frame(SitemapUrlOf(root_url, custom_sitemap))>>
    /\ smRoom' \in HandlerRooms
    /\ smpc' = "resolving"
    /\ pc' = "sitemap"
    /\ UNCHANGED <<smDocs, smFetched, smWarnings, smExhausted, smResult>>
    /\ UNCHANGED <<inputVars, main_terms, main_all_urls, scan_queue, scanFetched, page_texts,
                   results_rows, messages>>
    /\ UNCHANGED <<matchVars, crawlVars>>

MainSitemapOff ==
    /\ pc = "use_sitemap"
    /\ ~use_sitemap
    /\ pc' = "use_crawler"
    /\ UNCHANGED <<inputVars, main_terms, main_all_urls, scan_queue, scanFetched, page_texts,
                   results_rows, messages>>
    /\ UNCHANGED <<matchVars, smVars, crawlVars>>

\* all_urls.update(sitemap_urls); an exception that left the call ends the run.
MainSitemapReturned ==
    /\ pc = "sitemap"
    /\ smpc \in {"done", "raised"}
    /\ IF smpc = "done"
       THEN /\ main_all_urls' = main_all_urls \cup smResult
            /\ pc' = "use_crawler"
       ELSE /\ pc' = "crashed"
            /\ UNCHANGED main_all_urls
    /\ UNCHANGED <<inputVars, main_terms, scan_queue, scanFetched, page_texts, results_rows, messages>>
    /\ UNCHANGED <<matchVars, smVars, crawlVars>>

\* if use_crawler: crawled_urls = crawl_site(session, root_url, crawl_limit, ...)
MainCrawlCall ==
    /\ pc = "use_crawler"
    /\ use_crawler
    /\ start_url' = urlparse(root_url)
    /\ max_pages' = crawl_limit
    /\ root_domain' = urlparse(root_url).netloc
    /\ to_visit' = <<urlparse(root_url)>>
    /\ seen' = {}
    /\ all_urls' = {}
    /\ cpc' = "loop"
    /\ pc' = "crawl"
    /\ UNCHANGED <<pages, crawlFetched, slept>>
    /\ UNCHANGED <<inputVars, main_terms, main_all_urls, scan_queue, scanFetched, page_texts,
                   results_rows, messages>>
    /\ UNCHANGED <<matchVars, smVars>>

MainCrawlOff ==
    /\ pc = "use_crawler"
    /\ ~use_crawler
    /\ pc' = "collected"
    /\ UNCHANGED <<inputVars, main_terms, main_all_urls, scan_queue, scanFetched, page_texts,
                   results_rows, messages>>
    /\ UNCHANGED <<matchVars, smVars, crawlVars>>

\* all_urls.update(crawled_urls)
MainCrawlReturned ==
    /\ pc = "crawl"
    /\ cpc = "done"
    /\ main_all_urls' = main_all_urls \cup {geturl(u) : u \in all_urls}
    /\ pc' = "collected"
    /\ UNCHANGED <<inputVars, main_terms, scan_queue, scanFetched, page_texts, results_rows, messages>>
    /\ UNCHANGED <<matchVars, smVars, crawlVars>>

\* if not all_urls: st.warning(...); return
MainNoUrls ==
    /\ pc = "collected"
    /\ main_all_urls = {}
    /\ messages' = Append(messages, "warning_no_urls")
    /\ pc' = "returned"
    /\ UNCHANGED <<inputVars, main_terms, main_all_urls, scan_queue, scanFetched, page_texts,
                   results_rows>>
    /\ UNCHANGED <<matchVars, smVars, crawlVars>>

\* st.success(total); results_rows = []; the scan loop starts over sorted(all_urls)
MainScanStart ==
    /\ pc = "collected"
    /\ main_all_urls # {}
    /\ messages' = Append(messages, "success_total")
    /\ results_rows' = <<>>
    /\ scan_queue' = Sorted(main_all_urls)
    /\ pc' = "scan"
    /\ UNCHANGED <<inputVars, main_terms, main_all_urls, scanFetched, page_texts>>
    /\ UNCHANGED <<matchVars, smVars, crawlVars>>

\* An iteration of the scan loop whose fetch_html gives no html: continue.
MainScanNoHtml ==
    /\ pc = "scan"
    /\ scan_queue # <<>>
    /\ scanFetched' = Append(scanFetched, Head(scan_queue))
    /\ page_texts' = Append(page_texts, [html |-> FALSE, text |-> <<>>])
    /\ scan_queue' = Tail(scan_queue)
    /\ UNCHANGED <<inputVars, main_terms, main_all_urls, results_rows, messages, pc>>
    /\ UNCHANGED <<matchVars, smVars, crawlVars>>

\* An iteration of the scan loop whose fetch_html gives html: the matches of
\* its visible text become rows.
MainScanHtml ==
    /\ pc = "scan"
    /\ scan_queue # <<>>
    /\ Requestable(urlparse(Head(scan_queue)))
    /\ \E txt \in ScanTexts :
          /\ page_texts' = Append(page_texts, [html |-> TRUE, text |-> txt])
          /\ results_rows' =
                results_rows \o Rows(Head(scan_queue), search_terms_in_text(txt, main_terms))
    /\ scanFetched' = Append(scanFetched, Head(scan_queue))
    /\ scan_queue' = Tail(scan_queue)
    /\ UNCHANGED <<inputVars, main_terms, main_all_urls, messages, pc>>
    /\ UNCHANGED <<matchVars, smVars, crawlVars>>

\* After the loop: the table of matches, or the message that there are none.
MainShow ==
    /\ pc = "scan"
    /\ scan_queue = <<>>
    /\ messages' = Append(messages, IF results_rows # <<>> THEN "matches_found"
                                     ELSE "success_no_terms_found")
    /\ pc' = "returned"
    /\ UNCHANGED <<inputVars, main_terms, main_all_urls, scan_queue, scanFetched, page_texts,
                   results_rows>>
    /\ UNCHANGED <<matchVars, smVars, crawlVars>>

MainNext ==
    \/ MainNotRun \/ MainNoRoot \/ MainNoTerms \/ MainValid
    \/ MainSitemapCall \/ MainSitemapOff \/ MainSitemapReturned
    \/ MainCrawlCall \/ MainCrawlOff \/ MainCrawlReturned
    \/ MainNoUrls \/ MainScanStart \/ MainScanNoHtml \/ MainScanHtml \/ MainShow

\* ------------------------------------------------------------------------
\* Matcher, statement by statement, on the terms main makes of the text area
\* ------------------------------------------------------------------------
\* "\n".join(lines)
RECURSIVE JoinLines(_)
JoinLines(lines) ==
    IF lines = <<>> THEN <<>>
    ELSE IF Len(lines) = 1 THEN Head(lines)
    ELSE Head(lines) \o <<"\n">> \o JoinLines(Tail(lines))

\* The contents of the text area: the inputs of the run that hold a term
\* (among them blank lines, padded lines and a final line break), and every
\* list of terms of the matcher's inputs, one term per line.
TermBoxes ==
    {box \in TermsInputs : ParseTerms(box) # <<>>}
    \cup {JoinLines(tms) : tms \in TermLists}
    \cup { <<" ", "a", "\t", "\n", " ", "\n", "B", "\n">> }

\* ParseTerms over TermBoxes, evaluated once.
ParsedBoxes == [box \in TermBoxes |-> ParseTerms(box)]

ScanInit ==
    /\ text \in Bodies
    /\ terms_text \in TermBoxes
    /\ terms = <<>>
    /\ results = <<>>
    /\ hits = <<>>
    /\ termIdx = 0
    /\ scanStart = 0
    /\ scanIdx = -1
    /\ mpc = "main"

\* terms = [...]; if not terms: return; ...; search_terms_in_text(text, terms):
\* results = defaultdict(list); lower_text = text.lower()
ScanCall ==
    /\ mpc = "main"
    /\ ~NoTerms(ParsedBoxes[terms_text])
    /\ terms' = ParsedBoxes[terms_text]
    /\ mpc' = "for"
    /\ UNCHANGED <<text, results, hits, termIdx, scanStart, scanIdx>>
    /\ UNCHANGED notMatch

\* for term in terms: lower_term = term.lower(); start = 0; and the first
\* idx = lower_text.find(lower_term, start) of the while loop.
ScanFor ==
    /\ mpc = "for"
    /\ termIdx < Len(terms)
    /\ termIdx' = termIdx + 1
    /\ scanStart' = 0
    /\ scanIdx' = Find(Lower(text), Lower(terms[termIdx + 1]), 0)
    /\ hits' = Append(hits, <<>>)
    /\ mpc' = "while"
    /\ UNCHANGED <<text, terms, results>>
    /\ UNCHANGED notMatch

\* idx is a match: the snippet is appended, start moves, and the loop finds
\* its next idx.
ScanMatch ==
    /\ mpc = "while"
    /\ scanIdx # -1
    /\ results' = DictAppendAll(results, terms[termIdx],
                                << Snippet(text, terms[termIdx], scanIdx) >>)
    /\ hits' = [hits EXCEPT ![termIdx] = Append(@, scanIdx)]
    /\ scanStart' = NextStart(scanIdx, Lower(terms[termIdx]))
    /\ scanIdx' = Find(Lower(text), Lower(terms[termIdx]),
                       NextStart(scanIdx, Lower(terms[termIdx])))
    /\ UNCHANGED <<text, terms, termIdx, mpc>>
    /\ UNCHANGED notMatch

\* if idx == -1: break
ScanBreak ==
    /\ mpc = "while"
    /\ scanIdx = -1
    /\ mpc' = "for"
    /\ UNCHANGED <<text, terms, results, hits, termIdx, scanStart, scanIdx>>
    /\ UNCHANGED notMatch

\* The for loop is through the list: return results.
ScanReturn ==
    /\ mpc = "for"
    /\ termIdx = Len(terms)
    /\ mpc' = "returned"
    /\ UNCHANGED <<text, terms, results, hits, termIdx, scanStart, scanIdx>>
    /\ UNCHANGED notMatch

ScanNext == ScanCall \/ ScanFor \/ ScanMatch \/ ScanBreak \/ ScanReturn

\* ------------------------------------------------------------------------
\* Specifications
\* ------------------------------------------------------------------------
\* The matcher applied to every text and term list of the bounds.
InitMatch == MatchInit /\ SmIdle /\ CrawlIdle /\ MainIdle

SpecMatch == InitMatch /\ [][Search]_vars

\* The statements of one call of search_terms_in_text, on every short text
\* and every content of the text area; a statement that can run does run.
InitScan == ScanInit /\ MainIdleButTerms /\ SmIdle /\ CrawlIdle

SpecScan == InitScan /\ [][ScanNext]_vars

FairSpecScan == SpecScan /\ WF_vars(ScanNext)

\* One call of get_urls_from_sitemap on every site of the bounds.
InitSitemap == SmInit /\ MatchIdle /\ CrawlIdle /\ MainIdle

SpecSitemap == InitSitemap /\ [][SmNext]_vars

\* One call of crawl_site on every site, start URL and budget of the bounds.
InitCrawl == CrawlInit /\ MatchIdle /\ SmIdle /\ MainIdle

SpecCrawl == InitCrawl /\ [][CrawlNext]_vars

\* The loop body runs to its end each time it is entered, and the loop
\* condition is evaluated again after it.
FairSpecCrawl == SpecCrawl /\ WF_vars(CrawlNext)

\* One run of main on every setting of the widgets, against every site of the
\* bounds; the passes run one after the other.
InitMain == MainInit /\ MatchIdle /\ SmIdle /\ CrawlIdle

SpecMain == InitMain /\ [][MainNext \/ SmNext \/ CrawlNext]_vars

\* ------------------------------------------------------------------------
\* Properties of the matcher
\* ------------------------------------------------------------------------
\* lower_term occurs in lower_text at index i.
Occurs(lower_text, lower_term, i) ==
    /\ i >= 0
    /\ i + Len(lower_term) <= Len(lower_text)
    /\ \A k \in 1..Len(lower_term) : lower_text[i + k] = lower_term[k]

\* p lists exactly the positions of the left-to-right scan that takes the
\* first occurrence at or after the current position and resumes adv
\* characters after each match.
IsScanOf(lower_text, lower_term, p, adv) ==
    /\ \A j \in 1..Len(p) :
          LET from == IF j = 1 THEN 0 ELSE p[j - 1] + adv
          IN  /\ Occurs(lower_text, lower_term, p[j])
              /\ p[j] >= from
              /\ \A i \in from..(p[j] - 1) : ~Occurs(lower_text, lower_term, i)
    /\ LET from == IF p = <<>> THEN 0 ELSE p[Len(p)] + adv
       IN  \A i \in from..Len(lower_text) : ~Occurs(lower_text, lower_term, i)

RECURSIVE HitCount(_, _, _)
HitCount(tms, h, term) ==
    IF tms = <<>> THEN 0
    ELSE (IF Head(tms) = term THEN Len(Head(h)) ELSE 0) + HitCount(Tail(tms), Tail(h), term)

\* One snippet per position of the scan, and no entry for a term without one.
OneSnippetPerHit ==
    \A k \in 1..Len(terms) :
        LET n == HitCount(terms, hits, terms[k])
        IN  IF n = 0 THEN terms[k] \notin DictKeys(results)
            ELSE /\ terms[k] \in DictKeys(results)
                 /\ Len(results[DictGet(results, terms[k])].snippets) = n

\* C9 (as amended): for every text and every non-empty term the matcher
\* emits one snippet for exactly the positions of the left-to-right scan of
\* the lowercase view that takes the first occurrence at or after the
\* current position and resumes at match index + len(lowercased term);
\* positions increase and no match starts inside the span the previous match
\* consumed.
C9_OccurrenceScan ==
    mpc = "returned" =>
        /\ \A k \in 1..Len(terms) :
              /\ IsScanOf(Lower(text), Lower(terms[k]), hits[k], Len(Lower(terms[k])))
              /\ \A j \in 2..Len(hits[k]) : hits[k][j] >= hits[k][j - 1] + Len(Lower(terms[k]))
        /\ OneSnippetPerHit

\* C9 (as claimed): the scan resumes at match index + len(term).
C9_OccurrenceScanByTermLength ==
    mpc = "returned" =>
        /\ \A k \in 1..Len(terms) :
              IsScanOf(Lower(text), Lower(terms[k]), hits[k], Len(terms[k]))
        /\ OneSnippetPerHit

\* C9 witness: a scan that found two matches or more and passed over an
\* occurrence that starts inside a consumed span.
C9_Witness ==
    /\ mpc = "returned"
    /\ \E k \in 1..Len(terms) :
          /\ Len(hits[k]) >= 2
          /\ \E i \in 0..Len(Lower(text)) :
                /\ Occurs(Lower(text), Lower(terms[k]), i)
                /\ \A j \in 1..Len(hits[k]) : hits[k][j] # i

\* The snippet of the j-th match of the k-th term of the list.
SnippetOfHit(k, j) ==
    LET before == HitCount(SubSeq(terms, 1, k - 1), SubSeq(hits, 1, k - 1), terms[k])
    IN  results[DictGet(results, terms[k])].snippets[before + j]

\* s holds, in some case, an occurrence of term with at most ContextRadius
\* characters before it and after it.
HoldsOccurrence(s, term) ==
    \E q \in 0..Len(s) : \E r \in q..Len(s) :
        /\ Lower(SubSeq(s, q + 1, r)) = Lower(term)
        /\ q <= ContextRadius
        /\ Len(s) - r <= ContextRadius

\* C10: for a match of a term at index i of the text, the snippet is the
\* trimmed original-case slice [max(0, i - 60), min(len(text), i + len(term)
\* + 60)), and so holds the matched occurrence in its original case with at
\* most 60 characters of context on each side.
C10_SnippetCorrect ==
    mpc = "returned" =>
        \A k \in 1..Len(terms) : \A j \in 1..Len(hits[k]) :
            LET i == hits[k][j]
                term == terms[k]
            IN  /\ Lower(Slice(text, i, i + Len(term))) = Lower(term)
                /\ SnippetOfHit(k, j) =
                       Strip(Slice(text, Max(0, i - ContextRadius),
                                   Min(Len(text), i + Len(term) + ContextRadius)))
                /\ HoldsOccurrence(SnippetOfHit(k, j), term)

\* C10, the part about the occurrence alone.
C10_SnippetHoldsMatch ==
    mpc = "returned" =>
        \A k \in 1..Len(terms) : \A j \in 1..Len(hits[k]) :
            HoldsOccurrence(SnippetOfHit(k, j), terms[k])

\* ------------------------------------------------------------------------
\* Properties of the sitemap resolver
\* ------------------------------------------------------------------------
\* The page URLs a flat sitemap lists (its loc texts, trimmed).
ListedUrls(doc) ==
    {Strip(doc.urls[i]) : i \in {j \in 1..Len(doc.urls) : doc.urls[j] # <<>>}}

\* The sitemap URLs an index names.
Children(doc) ==
    {Strip(doc.sitemaps[i]) : i \in {j \in 1..Len(doc.sitemaps) : doc.sitemaps[j] # <<>>}}

Served(u) == u \in DOMAIN smDocs /\ smDocs[u].fails = ""
IsIndex(u) == Served(u) /\ smDocs[u].sitemaps # <<>>
IsFlat(u) == Served(u) /\ smDocs[u].sitemaps = <<>>
Warned(u) == \E i \in 1..Len(smWarnings) : smWarnings[i] = u

\* The sitemap URLs reachable from the set S through index documents.
RECURSIVE ReachFrom(_, _)
ReachFrom(S, n) ==
    IF n = 0 THEN S
    ELSE ReachFrom(S \cup UNION {Children(smDocs[u]) : u \in {v \in S : IsIndex(v)}}, n - 1)

Reachable == ReachFrom({EntryUrl}, Cardinality(SmUrls))

\* C4: a sitemap index that references itself, directly or transitively, is
\* stopped by a depth or node-count cap of the resolver and ends in a
\* warning, instead of nesting calls until the interpreter's call stack is
\* full.
C4_SelfReferenceCapped == ~smExhausted /\ Len(smStack) < RecursionLimit

\* C5: for an acyclic tree of sitemap indexes whose nodes all fetch and
\* parse, the result is exactly the union of the page URLs listed by the
\* flat sitemaps reachable from the given URL.
C5_Flattening ==
    (smpc = "done" /\ smWarnings = <<>>) =>
        smResult = UNION {ListedUrls(smDocs[u]) : u \in {v \in Reachable : IsFlat(v)}}

\* C5 witness: an index with two distinct flat children that share a page
\* URL resolved to the union, the shared URL once.
C5_Witness ==
    /\ smpc = "done"
    /\ smWarnings = <<>>
    /\ IsIndex(EntryUrl)
    /\ \E c, d \in Children(smDocs[EntryUrl]) :
          /\ c # d
          /\ IsFlat(c)
          /\ IsFlat(d)
          /\ ListedUrls(smDocs[c]) \cap ListedUrls(smDocs[d]) # {}
          /\ Cardinality(smResult) >= 2
          /\ Len(smDocs[c].urls) + Len(smDocs[d].urls) > Cardinality(smResult)

\* C6: a fetch or parse failure at a sitemap node gives a warning and nothing
\* else from that node: the error never reaches the caller, every entry of
\* every index that was read is still resolved, and the result holds every
\* page URL of every flat sitemap that was read (the last two as long as the
\* interpreter's call stack did not run full).
C6_FailureIsolation ==
    /\ smpc # "raised"
    /\ (smpc = "done" /\ ~smExhausted) =>
          /\ \A u \in DOMAIN smDocs :
                /\ smDocs[u].fails # "" => Warned(u)
                /\ IsFlat(u) => ListedUrls(smDocs[u]) \subseteq smResult
                /\ IsIndex(u) =>
                      \A c \in Children(smDocs[u]) : smFetched[c] >= 1 \/ Warned(c)
          /\ smResult \subseteq UNION {ListedUrls(smDocs[u]) : u \in {v \in DOMAIN smDocs : IsFlat(v)}}

\* C6 witness: the first child of an index failed to parse or to fetch and
\* the page URLs of its sibling are in the result.
C6_Witness ==
    /\ smpc = "done"
    /\ ~smExhausted
    /\ IsIndex(EntryUrl)
    /\ Len(smDocs[EntryUrl].sitemaps) = 2
    /\ LET c == Strip(smDocs[EntryUrl].sitemaps[1])
           d == Strip(smDocs[EntryUrl].sitemaps[2])
       IN  /\ c \in DOMAIN smDocs
           /\ smDocs[c].fails = "ParseError"
           /\ Warned(c)
           /\ IsFlat(d)
           /\ ListedUrls(smDocs[d]) # {}
           /\ smResult = ListedUrls(smDocs[d])

\* C7: no URL is requested more than once within one pass (sitemap
\* resolution, crawl, final scan).
NoRepeat(log) == \A i, j \in 1..Len(log) : log[i] = log[j] => i = j

C7_FetchedOncePerPass ==
    /\ \A u \in SmUrls : smFetched[u] <= 1
    /\ NoRepeat([i \in 1..Len(crawlFetched) |-> geturl(crawlFetched[i])])
    /\ NoRepeat(scanFetched)

\* ------------------------------------------------------------------------
\* Properties of the crawler
\* ------------------------------------------------------------------------
Frontier == {to_visit[i] : i \in 1..Len(to_visit)}

\* The place of url in the record of fetches (0: never fetched).
FetchIndex(url) ==
    IF \E i \in 1..Len(crawlFetched) : crawlFetched[i] = url
    THEN CHOOSE i \in 1..Len(crawlFetched) : crawlFetched[i] = url
    ELSE 0

\* The URLs the links of the page served for p lead to, for the links that
\* pass is_internal_url.
InternalTargets(p) ==
    IF PageKey(p) \notin DOMAIN pages THEN {}
    ELSE LET links == pages[PageKey(p)].links
         IN  {Normalized(urljoin(p, links[i])) :
                 i \in {j \in 1..Len(links) :
                          /\ ~StartsWithHash(links[j])
                          /\ is_internal_url(urljoin(p, links[j]), root_domain)}}

\* url is start_url or a link target of a page fetched with success before it.
ReachedByInternalLink(url) ==
    \/ url = start_url
    \/ \E p \in all_urls :
          /\ FetchIndex(p) > 0
          /\ FetchIndex(p) < FetchIndex(url)
          /\ url \in InternalTargets(p)

\* C1: for every max_pages = N >= 0, every page graph and every pattern of
\* fetch outcomes, the result set holds at most N URLs, in the returned set
\* and in every intermediate state of the loop.
C1_Budget == Cardinality(all_urls) <= max_pages

\* C1 witness: the crawl ended on its budget, with URLs left in the frontier
\* and as many URLs in the result as the budget allows.
C1_Witness ==
    /\ cpc = "done"
    /\ max_pages >= 2
    /\ Cardinality(all_urls) = max_pages
    /\ to_visit # <<>>

\* C2: on every finite page graph, cycles and self links included, for every
\* max_pages and every outcome of each fetch, the loop reaches its exit and
\* crawl_site returns.
C2_Termination == <>(cpc = "done")

\* C2 witness: the crawl of a site whose pages link to each other in a cycle
\* returned with the frontier empty and budget left.
C2_Witness ==
    /\ cpc = "done"
    /\ to_visit = <<>>
    /\ Cardinality(seen) < max_pages
    /\ \E u, v \in all_urls :
          /\ u # v
          /\ v \in InternalTargets(u)
          /\ Normalized(u) \in InternalTargets(v)

\* C3 (as claimed): every URL of the result has the root domain as its host
\* and was reached from start_url through links that passed is_internal_url
\* on pages fetched with success, and no URL with another host is ever in
\* the result or in the frontier.
C3_DomainContainment ==
    /\ \A u \in all_urls : u.netloc = root_domain /\ ReachedByInternalLink(u)
    /\ \A u \in Frontier : u.netloc = root_domain

\* C3 (as amended): as claimed for the result; the frontier never holds a URL
\* whose host is another domain (a subdomain included), but it does hold the
\* URLs without a host (javascript:...) that the skip predicate lets
\* through; these are never in the result.
C3_DomainContainmentHostless ==
    /\ \A u \in all_urls : u.netloc = root_domain /\ ReachedByInternalLink(u)
    /\ \A u \in Frontier : u.netloc = root_domain \/ u.netloc = <<>>

\* C3 witness: a page that links to a subdomain and to another page of the
\* site was fetched, and the crawl returned that other page.
C3_Witness ==
    /\ cpc = "done"
    /\ \E u \in all_urls :
          /\ u # start_url
          /\ \E p \in all_urls :
                \E i \in 1..Len(pages[PageKey(p)].links) :
                    pages[PageKey(p)].links[i].netloc = WwwHost

\* The set crawl_site returns, as a function of its arguments and of what
\* each page of the site serves: the loop run from the given frontier,
\* seen-set and result over the outcomes recorded in site.
RECURSIVE VisitedFrom(_, _, _, _, _, _)
VisitedFrom(frontier, seenSet, result, budget, domain, site) ==
    IF frontier = <<>> \/ Cardinality(seenSet) >= budget THEN result
    ELSE LET url == Head(frontier)
             rest == Tail(frontier)
             marked == seenSet \cup {url}
         IN  IF url \in seenSet
             THEN VisitedFrom(rest, seenSet, result, budget, domain, site)
             ELSE IF should_skip_url(url) \/ ~Requestable(url)
                     \/ PageKey(url) \notin DOMAIN site \/ ~site[PageKey(url)].html
             THEN VisitedFrom(rest, marked, result, budget, domain, site)
             ELSE VisitedFrom(rest \o Discovered(url, site[PageKey(url)].links, marked, domain),
                              marked, result \cup {url}, budget, domain, site)

\* C11: the set crawl_site returns is a function of start_url, max_pages and
\* the fetch outcome of each URL: two runs with the same arguments over the
\* same page graph and the same outcomes return the same set.
C11_Determinism ==
    cpc = "done" =>
        all_urls = VisitedFrom(<<start_url>>, {}, {}, max_pages, start_url.netloc, pages)

\* C11 witness: a crawl over a site with a failing page and a cycle returned
\* two pages or more.
C11_Witness ==
    /\ cpc = "done"
    /\ Cardinality(all_urls) >= 2
    /\ \E key \in DOMAIN pages : ~pages[key].html
    /\ \E u \in all_urls : \E v \in all_urls \ {u} : u \in InternalTargets(v)
    /\ all_urls = VisitedFrom(<<start_url>>, {}, {}, max_pages, start_url.netloc, pages)

\* How many times url stands in the list q.
Count(q, url) == Cardinality({i \in 1..Len(q) : q[i] = url})

\* C12: once a URL is in the seen-set it stays there, no step fetches it and
\* no step appends it to the frontier, for the rest of the crawl.
C12_SeenNeverAgain ==
    [][ /\ seen \subseteq seen'
        /\ \A u \in seen' : Count(to_visit', u) <= Count(to_visit, u)
        /\ Len(crawlFetched') > Len(crawlFetched) =>
               crawlFetched'[Len(crawlFetched')] \notin seen ]_vars

\* C12 witness: a page fetched with success links back to a URL fetched
\* before it, and the crawl ended with the frontier empty.
C12_Witness ==
    /\ cpc = "done"
    /\ to_visit = <<>>
    /\ \E p \in all_urls : \E u \in InternalTargets(p) :
          /\ FetchIndex(u) > 0
          /\ FetchIndex(u) < FetchIndex(p)

\* No two URLs of the set S differ only in their fragment.
OnePerFragmentless(S) == \A u, v \in S : Normalized(u) = Normalized(v) => u = v

\* C13: the identity of a URL in the crawl is the URL without its fragment,
\* for start_url too: no two URLs that differ only in the fragment are both
\* marked seen, both fetched or both in the result.
C13_FragmentlessIdentity ==
    /\ OnePerFragmentless(seen)
    /\ OnePerFragmentless({crawlFetched[i] : i \in 1..Len(crawlFetched)})
    /\ OnePerFragmentless(all_urls)

\* C14: every iteration of the crawl loop sleeps for delay before the next
\* one begins, whatever its outcome: also when the popped URL was already
\* seen, was skip-matched or gave no html.
C14_SleepEveryIteration ==
    [][ (cpc = "loop" /\ cpc' = "loop") => slept' = slept + 1 ]_vars

\* C15: in every state of the crawl |seen| <= max_pages, so at most
\* max_pages fetches are issued; an iteration that pops a URL already in
\* seen leaves |seen| as it is, and every other iteration, the skip-matched
\* and the failed ones included, adds one to it.
C15_SeenBudget ==
    [][ /\ Cardinality(seen) <= max_pages /\ Cardinality(seen') <= max_pages
        /\ Len(crawlFetched') <= Cardinality(seen')
        /\ (cpc = "loop" /\ cpc' = "loop") =>
              IF Head(to_visit) \in seen THEN seen' = seen
              ELSE seen' = seen \cup {Head(to_visit)}
                   /\ Cardinality(seen') = Cardinality(seen) + 1 ]_vars

\* C15 witness: the crawl ended on its budget, having issued max_pages
\* fetches, one of them failed.
C15_Witness ==
    /\ cpc = "done"
    /\ max_pages >= 2
    /\ Cardinality(seen) = max_pages
    /\ Len(crawlFetched) = max_pages
    /\ seen \ all_urls # {}
    /\ to_visit # <<>>

\* The fetch of url gave no html.
FetchFailed(url) ==
    /\ FetchIndex(url) > 0
    /\ ~Requestable(url) \/ ~pages[PageKey(url)].html

\* C16: the result is a subset of the seen-set; a URL the skip predicate
\* matches is never fetched and never in the result; a URL whose fetch
\* failed is in seen and not in the result, and the iteration that failed to
\* fetch it appends nothing to the frontier.
C16_ResultOnlyFetched ==
    [][ /\ all_urls' \subseteq seen'
        /\ \A i \in 1..Len(crawlFetched') : ~SkipMatched[crawlFetched'[i]]
        /\ \A u \in all_urls' : ~SkipMatched[u] /\ ~FetchFailed(u)'
        /\ \A u \in seen' : FetchFailed(u)' => u \notin all_urls'
        /\ \A i \in 1..Len(crawlFetched') : crawlFetched'[i] \in seen'
        /\ (Len(crawlFetched') > Len(crawlFetched) /\ all_urls' = all_urls) =>
              to_visit' = Tail(to_visit) ]_vars

\* C16 witness: the crawl ended with a non-empty result and with a URL in
\* seen whose response was not html although its body held an internal
\* link; the URL is not in the result and the target of its link is neither
\* seen nor waiting in the frontier.
C16_Witness ==
    /\ cpc = "done"
    /\ \E u \in seen \ all_urls :
          /\ FetchFailed(u)
          /\ Requestable(u)
          /\ \E i \in 1..Len(pages[PageKey(u)].links) :
                LET target == Normalized(urljoin(u, pages[PageKey(u)].links[i]))
                IN  /\ is_internal_url(target, root_domain)
                    /\ target \notin seen
                    /\ Count(to_visit, target) = 0
    /\ all_urls # {}

\* The URLs one link further than those of nearer, by the links (targets) of
\* the pages fetched with success.
Grow(nearer, targets) ==
    nearer \cup UNION {targets[p] : p \in nearer \cap DOMAIN targets}

\* The sequence whose element k + 1, for k up to the given one, is the set of
\* the URLs at most k links away from start_url.  (The singleton sets make
\* each level be computed once.)
RECURSIVE WithinDistance(_, _)
WithinDistance(k, targets) ==
    IF k = 0 THEN << {start_url} >>
    ELSE CHOOSE longer \in {Append(levels, Grow(levels[k], targets)) :
                               levels \in {WithinDistance(k - 1, targets)}} : TRUE

\* The shortest link distance from start_url of every URL within reach.
LinkDistances ==
    LET far == Cardinality(all_urls) + 1
    IN  CHOOSE distance \in
            {[u \in levels[far + 1] |-> CHOOSE k \in 0..far :
                                           /\ u \in levels[k + 1]
                                           /\ \A j \in 1..k : u \notin levels[j]] :
                levels \in {WithinDistance(far, targets) :
                               targets \in {[p \in all_urls |-> InternalTargets(p)]}}} : TRUE
LinkDistance(url) == LinkDistances[url]

IsPrefix(p, q) == Len(p) <= Len(q) /\ \A i \in 1..Len(p) : p[i] = q[i]

\* Of two fetched URLs, the one nearer to start_url was fetched first.
FetchedByDistance ==
    \A distance \in {LinkDistances} :
       /\ \A i \in 1..Len(crawlFetched) : crawlFetched[i] \in DOMAIN distance
       /\ \A i, j \in 1..Len(crawlFetched) :
             distance[crawlFetched[i]] < distance[crawlFetched[j]] => i < j

InvalidConfiguration ==
    Strip(root_url) = <<>> \/ ParseTerms(terms_text) = <<>>

\* No GET was issued: none by the sitemap resolver, the crawler or the scan.
NoRequestIssued ==
    /\ \A u \in SmUrls : smFetched[u] = 0
    /\ crawlFetched = <<>>
    /\ scanFetched = <<>>

\* C8: a run whose root URL is empty after trimming, or whose term list is
\* empty after the blank lines are dropped, issues no HTTP request in any of
\* the three passes, never gets past the validation, and ends having
\* reported exactly one error.
C8_InvalidRejectedBeforeNetwork ==
    (run_button /\ InvalidConfiguration) =>
        /\ NoRequestIssued
        /\ pc \in {"run_button", "returned"}
        /\ smpc = "idle" /\ cpc = "idle"
        /\ pc = "returned" =>
              messages = IF Strip(root_url) = <<>> THEN <<"error_root_url">>
                         ELSE <<"error_terms">>

\* C8 witness: with a root URL and both passes switched on, a term box that
\* holds only blank lines ended the run with the error and without a request.
C8_Witness ==
    /\ run_button
    /\ Strip(root_url) # <<>>
    /\ terms_text # <<>>
    /\ ParseTerms(terms_text) = <<>>
    /\ use_sitemap /\ use_crawler
    /\ pc = "returned"
    /\ messages = <<"error_terms">>
    /\ NoRequestIssued

\* The number of match records of the pair (url, term).
RecordCount(url, term) ==
    Cardinality({i \in 1..Len(results_rows) :
                   results_rows[i].url = url /\ results_rows[i].term = term})

\* C18: for every page scanned and every term of the accepted term list
\* (in any order, repeated or not), the number of match records of the pair
\* (url, term) is the number of occurrences of the term that the scan of
\* the matcher finds in the text of the page, and a term without occurrence
\* has no record and no entry in the result mapping of the matcher.
C18_OneRecordPerOccurrence ==
    \A i \in 1..Len(scanFetched) :
       page_texts[i].html =>
          \A k \in 1..Len(main_terms) :
             LET term == main_terms[k]
                 found == MatchPositions(Lower(page_texts[i].text), Lower(term), 0)
             IN  /\ RecordCount(scanFetched[i], term) = Len(found)
                 /\ found = <<>> =>
                       term \notin DictKeys(search_terms_in_text(page_texts[i].text,
                                                                 main_terms))

\* The terms of tms that occur in txt, each once, in the order of their
\* first place in tms.
RECURSIVE FirstMatchOrder(_, _, _)
FirstMatchOrder(txt, tms, taken) ==
    IF tms = <<>> THEN <<>>
    ELSE IF Head(tms) \in taken \/ MatchPositions(Lower(txt), Lower(Head(tms)), 0) = <<>>
    THEN FirstMatchOrder(txt, Tail(tms), taken)
    ELSE <<Head(tms)>> \o FirstMatchOrder(txt, Tail(tms), taken \cup {Head(tms)})

\* The records of a page: term by term in first-match order, and for a term
\* one record per match position of its scan, in increasing position.
RECURSIVE RecordsInOrder(_, _, _)
RecordsInOrder(url, txt, ordered) ==
    IF ordered = <<>> THEN <<>>
    ELSE LET term == Head(ordered)
             positions == MatchPositions(Lower(txt), Lower(term), 0)
         IN  [j \in 1..Len(positions) |->
                 [url |-> url, term |-> term, snippet |-> Snippet(txt, term, positions[j])]]
             \o RecordsInOrder(url, txt, Tail(ordered))

\* The records of the pages scanned so far, page by page in the order of
\* their fetch; a page without html has none.
RECURSIVE RecordsOfPass(_)
RecordsOfPass(n) ==
    IF n = 0 THEN <<>>
    ELSE RecordsOfPass(n - 1)
         \o (IF page_texts[n].html
             THEN RecordsInOrder(scanFetched[n], page_texts[n].text,
                                 FirstMatchOrder(page_texts[n].text, main_terms, {}))
             ELSE <<>>)

\* The match positions of the records of term, in the order of the records:
\* the positions of the scan of each place the term has in the list.
RECURSIVE RecordPositions(_, _, _)
RecordPositions(txt, tms, term) ==
    IF tms = <<>> THEN <<>>
    ELSE (IF Head(tms) = term THEN MatchPositions(Lower(txt), Lower(term), 0) ELSE <<>>)
         \o RecordPositions(txt, Tail(tms), term)

Increasing(p) == \A i, j \in 1..Len(p) : i < j => p[i] < p[j]

\* C20: the scan fetches the URLs of the union of the sitemap's and the
\* crawl's URLs once each, in ascending order, and leaves the set as it is;
\* the records emitted are those of the pages in that order, within a page
\* those of the terms in the order of their first match, within a term those
\* of its matches in increasing position; a page whose fetch fails adds no
\* record, and the pass goes on to the last URL.
C20_ScanOrder ==
    /\ pc = "scan" =>
          /\ scanFetched \o scan_queue = Sorted(main_all_urls)
          /\ results_rows = RecordsOfPass(Len(scanFetched))
          /\ \A n \in 1..Len(page_texts) : \A k \in 1..Len(main_terms) :
                page_texts[n].html =>
                   Increasing(RecordPositions(page_texts[n].text, main_terms, main_terms[k]))
    /\ (pc = "returned" /\ scanFetched # <<>>) =>
          /\ scanFetched = Sorted(main_all_urls)
          /\ results_rows = RecordsOfPass(Len(scanFetched))

\* ------------------------------------------------------------------------
\* Properties of the matcher's loop
\* ------------------------------------------------------------------------
\* C19: every term main passes to the matcher is non-empty and trimmed; the
\* search position strictly increases with each match; and, for every text
\* and every such list of terms, search_terms_in_text returns.
C19_MatcherTerminates ==
    /\ [](mpc # "main" =>
            \A k \in 1..Len(terms) : terms[k] # <<>> /\ Strip(terms[k]) = terms[k])
    /\ [][(mpc = "while" /\ mpc' = "while") => scanStart' > scanStart]_vars
    /\ <>(mpc = "returned")

\* C19 witness: the call returned after a while loop that matched the same
\* term more than once, on terms taken from a text area with a blank or a
\* padded line.
C19_Witness ==
    /\ mpc = "returned"
    /\ \E k \in 1..Len(hits) : Len(hits[k]) >= 2
    /\ JoinLines(terms) # terms_text
    /\ results = search_terms_in_text(text, terms)

====
